---- MODULE Spec2Model ----
(***************************************************************************)
(* Simple stock management system (simpleinventorymanagement.py).          *)
(* The three SQLite tables, the store functions and the console loop of    *)
(* main().  One step of the model is one iteration of the menu loop: the   *)
(* text typed at each prompt is drawn from small sets of character         *)
(* strings, parsed the way prompt_int / prompt_float parse it, and handed  *)
(* to the store function the menu choice selects.                          *)
(***************************************************************************)
EXTENDS Integers, Sequences, FiniteSets, TLC

VARIABLES
    Products,        \* table Products:     id -> [name, price, stock]
    Suppliers,       \* table Suppliers:    id -> [name, contact]
    Transactions,    \* table Transactions: id -> [product_id, supplier_id, quantity, date, type]
    sqlite_sequence, \* AUTOINCREMENT bookkeeping: largest rowid ever used, per table
    pc,              \* "menu" at the top of the while loop of main, "done" at the end
                     \* of its body, "exited" after choice 9
    call,            \* the store function the last iteration invoked, with its arguments
    out,             \* the messages printed by the last iteration, in order
    rows,            \* the rows fetched by the last list_products / view_products_history
    pre,             \* the tables as they were when the last iteration began
    deleted,         \* history: the supplier ids deleted so far
    prev             \* history: the iteration before the last one, when its add_stock
                     \* succeeded (its call and the tables it began with)

vars == <<Products, Suppliers, Transactions, sqlite_sequence, pc, call, out, rows, pre,
          deleted, prev>>

----------------------------------------------------------------------------
(* Bounds of the model. *)

MaxRows == 3     \* rows ever inserted, the three tables together
MaxDate == 2     \* the dates date('now') yields are 1..MaxDate

----------------------------------------------------------------------------
(* Optional[int] and SQL NULL. *)

None == [some |-> FALSE, val |-> 0]
Some(v) == [some |-> TRUE, val |-> v]

Max(S) == CHOOSE x \in S : \A y \in S : y <= x

----------------------------------------------------------------------------
(* Text typed at the console: strings are sequences of characters. *)

Whitespace == {" "}
Digits == {"0", "1", "2", "3", "4", "5", "6", "7", "8", "9"}

DigitVal(c) ==
    CASE c = "0" -> 0 [] c = "1" -> 1 [] c = "2" -> 2 [] c = "3" -> 3
      [] c = "4" -> 4 [] c = "5" -> 5 [] c = "6" -> 6 [] c = "7" -> 7
      [] c = "8" -> 8 [] c = "9" -> 9

RECURSIVE lstrip(_)
lstrip(s) == IF s # <<>> /\ Head(s) \in Whitespace THEN lstrip(Tail(s)) ELSE s

RECURSIVE rstrip(_)
rstrip(s) ==
    IF s # <<>> /\ s[Len(s)] \in Whitespace
    THEN rstrip(SubSeq(s, 1, Len(s) - 1))
    ELSE s

strip(s) == rstrip(lstrip(s))

RECURSIVE Decimal(_)
Decimal(d) ==
    IF d = <<>> THEN 0
    ELSE 10 * Decimal(SubSeq(d, 1, Len(d) - 1)) + DigitVal(d[Len(d)])

\* int(s): surrounding whitespace ignored, an optional sign, then one or more
\* digits; anything else raises ValueError (None here).
ParseInt(s) ==
    LET t == strip(s)
        signed == t # <<>> /\ Head(t) \in {"-", "+"}
        d == IF signed THEN Tail(t) ELSE t
    IN  IF d # <<>> /\ \A i \in 1..Len(d) : d[i] \in Digits
        THEN Some(IF Head(t) = "-" THEN 0 - Decimal(d) ELSE Decimal(d))
        ELSE None

\* float(s) on the texts of FloatTokens (no ".", exponent, "inf" or "nan" among
\* them): a signed run of digits is the whole number it spells, anything else
\* raises ValueError.
ParseFloat(s) ==
    LET t == strip(s)
        signed == t # <<>> /\ Head(t) \in {"-", "+"}
        d == IF signed THEN Tail(t) ELSE t
    IN  IF d # <<>> /\ \A i \in 1..Len(d) : d[i] \in Digits
        THEN Some(IF Head(t) = "-" THEN 0 - Decimal(d) ELSE Decimal(d))
        ELSE None

MSG_INT == "Please enter a valid integer."
MSG_NUM == "Please enter a valid number."

\* prompt_int: the parsed value (None for a blank when allow_empty, None after
\* a ValueError) and what it printed.
prompt_int(s, allow_empty) ==
    IF allow_empty /\ strip(s) = <<>> THEN [val |-> None, out |-> <<>>]
    ELSE IF ParseInt(strip(s)).some THEN [val |-> ParseInt(strip(s)), out |-> <<>>]
    ELSE [val |-> None, out |-> <<MSG_INT>>]

prompt_float(s) ==
    IF ParseFloat(strip(s)).some THEN [val |-> ParseFloat(strip(s)), out |-> <<>>]
    ELSE [val |-> None, out |-> <<MSG_NUM>>]

\* The texts the operator types.
ChoiceTokens ==
    { <<>>, <<"x">>, <<"0">>, <<"1">>, <<"2">>, <<"3">>, <<" ", "3">>, <<"4">>,
      <<"5">>, <<"6">>, <<"7">>, <<"8">>, <<"9">> }
IdTokens == { <<>>, <<"x">>, <<"1">>, <<" ", "1", " ">>, <<"2">> }
QuantityTokens == { <<"x">>, <<"0">>, <<"1">>, <<"+", "2">> }
FloatTokens == { <<"x">>, <<"-", "1">>, <<"0">>, <<"1">> }
NameTokens == { <<>>, <<" ">>, <<"a">>, <<" ", "a">> }
ContactTokens == { <<>>, <<"c">> }
Dates == 1..MaxDate

\* What the prompts of main can return over those texts.
ChoiceInputs == {prompt_int(c, FALSE) : c \in ChoiceTokens}
IdInputs == {prompt_int(s, FALSE) : s \in IdTokens}
OptionalIdInputs == {prompt_int(s, TRUE) : s \in IdTokens}
QuantityInputs == {prompt_int(s, FALSE) : s \in QuantityTokens}
FloatInputs == {prompt_float(s) : s \in FloatTokens}
NameInputs == {strip(s) : s \in NameTokens}
ContactInputs == {strip(s) : s \in ContactTokens}

----------------------------------------------------------------------------
(* The database. *)

DB == [Products |-> Products, Suppliers |-> Suppliers,
       Transactions |-> Transactions, sqlite_sequence |-> sqlite_sequence]

EmptyTable == <<>>

\* INTEGER PRIMARY KEY AUTOINCREMENT: one more than the largest rowid the table
\* has ever held (sqlite_sequence), never a rowid of a deleted row.
NextRowidNoAutoincrement(table, seq) ==
    IF DOMAIN table = {} THEN 1 ELSE Max(DOMAIN table) + 1

NextRowid(table, seq) == Max(DOMAIN table \cup {seq}) + 1

Result(db, msgs, fetched) == [db |-> db, out |-> msgs, rows |-> fetched]

\* A row inserted into a table: the row under its new rowid, the sequence advanced.
Insert(table, seq, row) == table @@ (NextRowid(table, seq) :> row)

\* product_exists / supplier_exists: SELECT 1 FROM <table> WHERE id = ?
product_existsAlways(db, product_id) == TRUE

product_exists(db, product_id) == product_id \in DOMAIN db.Products

supplier_existsAlways(db, supplier_id) == TRUE

supplier_exists(db, supplier_id) == supplier_id \in DOMAIN db.Suppliers

\* UPDATE Products SET stock = stock + ? WHERE id = ?  (no row: no effect)
SetStockEveryRow(products, product_id, delta) ==
    [p \in DOMAIN products |-> [products[p] EXCEPT !.stock = @ + delta]]

SetStock(products, product_id, delta) ==
    [p \in DOMAIN products |->
        IF p = product_id THEN [products[p] EXCEPT !.stock = @ + delta]
        ELSE products[p]]

\* UPDATE Products SET price = ? WHERE id = ?
SetPrice(products, product_id, new_price) ==
    [p \in DOMAIN products |->
        IF p = product_id THEN [products[p] EXCEPT !.price = new_price]
        ELSE products[p]]

create_product(db, name, price) ==
    IF strip(name) = <<>> THEN Result(db, <<"Product name cannot be empty.">>, <<>>)
    ELSE IF price < 0 THEN Result(db, <<"Price cannot be negative.">>, <<>>)
    ELSE Result(
        [db EXCEPT
            !.Products = Insert(@, db.sqlite_sequence.Products,
                                [name |-> strip(name), price |-> price, stock |-> 0]),
            !.sqlite_sequence.Products = NextRowid(db.Products, @)],
        <<"Product '{name}' added.">>, <<>>)

add_supplier(db, name, contact) ==
    IF strip(name) = <<>> THEN Result(db, <<"Supplier name cannot be empty.">>, <<>>)
    ELSE IF strip(contact) = <<>>
    THEN Result(db, <<"Supplier contact cannot be empty.">>, <<>>)
    ELSE Result(
        [db EXCEPT
            !.Suppliers = Insert(@, db.sqlite_sequence.Suppliers,
                                 [name |-> strip(name), contact |-> strip(contact)]),
            !.sqlite_sequence.Suppliers = NextRowid(db.Suppliers, @)],
        <<"Supplier '{name}' added.">>, <<>>)

MSG_QTY == "Quantity must be a positive integer."
MSG_NO_PRODUCT == "Product not found."
MSG_NO_SUPPLIER == "Supplier not found."
MSG_INSUFFICIENT == "Error: Insufficient stock."
MSG_ADDED == "Added {quantity} unit(s) to product id {product_id}."
MSG_REMOVED == "Removed {quantity} unit(s) from product id {product_id}."

\* today: what date('now') yields when the row is inserted.
add_stock(db, product_id, supplier_id, quantity, today) ==
    IF quantity <= 0 THEN Result(db, <<MSG_QTY>>, <<>>)
    ELSE IF ~product_exists(db, product_id) THEN Result(db, <<MSG_NO_PRODUCT>>, <<>>)
    ELSE IF supplier_id.some /\ ~supplier_exists(db, supplier_id.val)
    THEN Result(db, <<MSG_NO_SUPPLIER>>, <<>>)
    ELSE Result(
        [db EXCEPT
            !.Transactions = Insert(@, db.sqlite_sequence.Transactions,
                [product_id |-> product_id, supplier_id |-> supplier_id,
                 quantity |-> quantity, date |-> today, type |-> "IN"]),
            !.sqlite_sequence.Transactions = NextRowid(db.Transactions, @),
            !.Products = SetStock(@, product_id, quantity)],
        <<MSG_ADDED>>, <<>>)

InsufficientNever(current_stock, quantity) == FALSE

InsufficientOffByOne(current_stock, quantity) == current_stock <= quantity

InsufficientOnlyWhenEmpty(current_stock, quantity) == current_stock <= 0

Insufficient(current_stock, quantity) == current_stock < quantity

remove_stock(db, product_id, quantity, today) ==
    IF quantity <= 0 THEN Result(db, <<MSG_QTY>>, <<>>)
    ELSE IF product_id \notin DOMAIN db.Products
    THEN Result(db, <<MSG_NO_PRODUCT>>, <<>>)
    ELSE IF Insufficient(db.Products[product_id].stock, quantity)
    THEN Result(db, <<MSG_INSUFFICIENT>>, <<>>)
    ELSE Result(
        [db EXCEPT
            !.Transactions = Insert(@, db.sqlite_sequence.Transactions,
                [product_id |-> product_id, supplier_id |-> None,
                 quantity |-> quantity, date |-> today, type |-> "OUT"]),
            !.sqlite_sequence.Transactions = NextRowid(db.Transactions, @),
            !.Products = SetStock(@, product_id, 0 - quantity)],
        <<MSG_REMOVED>>, <<>>)

\* SELECT id, name, price, stock FROM Products ORDER BY id
RECURSIVE ProductRows(_, _)
ProductRows(products, ids) ==
    IF ids = {} THEN <<>>
    ELSE LET i == CHOOSE x \in ids : \A y \in ids : x <= y
         IN  <<[id |-> i, name |-> products[i].name, price |-> products[i].price,
                stock |-> products[i].stock]>>
             \o ProductRows(products, ids \ {i})

list_products(db) ==
    IF DOMAIN db.Products = {} THEN Result(db, <<"No products found.">>, <<>>)
    ELSE Result(db, <<"ID Name Price Stock">>, ProductRows(db.Products, DOMAIN db.Products))

NA == <<"N", "/", "A">>

\* LEFT JOIN Suppliers ON supplier_id = Suppliers.id, COALESCE(Suppliers.name, 'N/A')
SupplierColumn(db, t) ==
    IF t.supplier_id.some /\ t.supplier_id.val \in DOMAIN db.Suppliers
    THEN db.Suppliers[t.supplier_id.val].name
    ELSE NA

\* ORDER BY Transactions.date DESC, Transactions.id DESC: a comes before b
OrderedBeforeIdOnly(db, a, b) == a > b

OrderedBefore(db, a, b) ==
    \/ db.Transactions[a].date > db.Transactions[b].date
    \/ db.Transactions[a].date = db.Transactions[b].date /\ a > b

RECURSIVE HistoryRows(_, _)
HistoryRows(db, ids) ==
    IF ids = {} THEN <<>>
    ELSE LET i == CHOOSE x \in ids : \A y \in ids \ {x} : OrderedBefore(db, x, y)
             t == db.Transactions[i]
         IN  <<[date |-> t.date, quantity |-> t.quantity, type |-> t.type,
                supplier |-> SupplierColumn(db, t)]>>
             \o HistoryRows(db, ids \ {i})

MSG_NO_HISTORY == "No transaction history for this product."
MSG_HISTORY == "History for product id {product_id}:"

view_products_history(db, product_id) ==
    IF ~product_exists(db, product_id) THEN Result(db, <<MSG_NO_PRODUCT>>, <<>>)
    ELSE LET ids == {i \in DOMAIN db.Transactions :
                        db.Transactions[i].product_id = product_id}
         IN  IF ids = {} THEN Result(db, <<MSG_NO_HISTORY>>, <<>>)
             ELSE Result(db, <<MSG_HISTORY>>, HistoryRows(db, ids))

MSG_PRICE_NEG == "Price cannot be negative."
MSG_PRICE_OK == "Updated price of product id {product_id} to {new_price:.2f}."

update_product_price(db, product_id, new_price) ==
    IF new_price < 0 THEN Result(db, <<MSG_PRICE_NEG>>, <<>>)
    ELSE IF ~product_exists(db, product_id) THEN Result(db, <<MSG_NO_PRODUCT>>, <<>>)
    ELSE Result([db EXCEPT !.Products = SetPrice(@, product_id, new_price)],
                <<MSG_PRICE_OK>>, <<>>)

MSG_DELETED == "Deleted supplier id {supplier_id}."

\* DELETE FROM Suppliers WHERE id = ?  (foreign keys are not enforced: the
\* connection never turns PRAGMA foreign_keys on, so Transactions is untouched)
DeleteSupplierCascade(db, supplier_id) ==
    [db EXCEPT
        !.Suppliers = [s \in DOMAIN @ \ {supplier_id} |-> @[s]],
        !.Transactions =
            LET keep == {i \in DOMAIN @ : @[i].supplier_id # Some(supplier_id)}
            IN  [i \in keep |-> @[i]]]

DeleteSupplier(db, supplier_id) ==
    [db EXCEPT !.Suppliers = [s \in DOMAIN @ \ {supplier_id} |-> @[s]]]

del_supplier(db, supplier_id) ==
    IF ~supplier_exists(db, supplier_id) THEN Result(db, <<MSG_NO_SUPPLIER>>, <<>>)
    ELSE Result(DeleteSupplier(db, supplier_id), <<MSG_DELETED>>, <<>>)

----------------------------------------------------------------------------
(* init_db and the console loop of main. *)

EmptyDB == [Products |-> EmptyTable, Suppliers |-> EmptyTable,
            Transactions |-> EmptyTable,
            sqlite_sequence |-> [Products |-> 0, Suppliers |-> 0, Transactions |-> 0]]

\* CREATE TABLE IF NOT EXISTS: existing tables and their rows are kept.
init_db(db) == Result(db, <<"Database initialized.">>, <<>>)

NoArgs == [fn |-> "none", product_id |-> 0, supplier_id |-> None, quantity |-> 0,
           price |-> 0, name |-> <<>>, contact |-> <<>>]

NoPrev == [call |-> NoArgs, pre |-> EmptyDB]

WithinBounds(db) ==
    db.sqlite_sequence.Products + db.sqlite_sequence.Suppliers
        + db.sqlite_sequence.Transactions <= MaxRows

\* One iteration of the while loop that ends with the call `args` names, r
\* being what the call did and `printed` what the prompts printed before it.
Iteration(args, r, printed, next_pc) ==
    /\ WithinBounds(r.db)
    /\ pre' = DB
    /\ deleted' = deleted \cup (DOMAIN Suppliers \ DOMAIN r.db.Suppliers)
    /\ prev' = prev
    /\ Products' = r.db.Products
    /\ Suppliers' = r.db.Suppliers
    /\ Transactions' = r.db.Transactions
    /\ sqlite_sequence' = r.db.sqlite_sequence
    /\ call' = args
    /\ out' = printed \o r.out
    /\ rows' = r.rows
    /\ pc' = next_pc

\* `continue`: the iteration ends before any store function is called.
Continue(printed) == Iteration(NoArgs, Result(DB, <<>>, <<>>), printed, "done")

Chosen(c, n) == c.val = Some(n)

Init ==
    /\ Products = EmptyDB.Products
    /\ Suppliers = EmptyDB.Suppliers
    /\ Transactions = EmptyDB.Transactions
    /\ sqlite_sequence = EmptyDB.sqlite_sequence
    /\ pc = "done"
    /\ call = [NoArgs EXCEPT !.fn = "init_db"]
    /\ out = init_db(EmptyDB).out
    /\ rows = <<>>
    /\ pre = EmptyDB
    /\ deleted = {}
    /\ prev = NoPrev

\* main() started again on the database file an earlier run left behind.
Main ==
    /\ pc = "exited"
    /\ Iteration([NoArgs EXCEPT !.fn = "init_db"], init_db(DB), <<>>, "done")

\* Back to the top of the while loop: the menu is printed again and the locals
\* of the iteration that ended are dead.
LoopBack ==
    /\ pc = "done"
    /\ pc' = "menu"
    /\ prev' = IF call.fn = "add_stock" /\ out[Len(out)] = MSG_ADDED
               THEN [call |-> call, pre |-> pre]
               ELSE NoPrev
    /\ call' = NoArgs
    /\ out' = <<>>
    /\ rows' = <<>>
    /\ pre' = DB
    /\ UNCHANGED <<Products, Suppliers, Transactions, sqlite_sequence, deleted>>

\* The menu choice is not an integer: `continue`.
MenuNoChoice ==
    /\ pc = "menu"
    /\ \E c \in ChoiceInputs :
        /\ ~c.val.some
        /\ Continue(c.out)

MenuAddProduct ==
    /\ pc = "menu"
    /\ \E c \in ChoiceInputs, name \in NameInputs, price \in FloatInputs :
        /\ Chosen(c, 1)
        /\ IF ~price.val.some THEN Continue(price.out)
               ELSE Iteration([NoArgs EXCEPT !.fn = "create_product", !.name = name,
                                             !.price = price.val.val],
                              create_product(DB, name, price.val.val), price.out, "done")

MenuAddSupplier ==
    /\ pc = "menu"
    /\ \E c \in ChoiceInputs, name \in NameInputs, contact \in ContactInputs :
        /\ Chosen(c, 2)
        /\ Iteration([NoArgs EXCEPT !.fn = "add_supplier", !.name = name,
                                        !.contact = contact],
                         add_supplier(DB, name, contact), <<>>, "done")

MenuAddStock ==
    /\ pc = "menu"
    /\ \E c \in ChoiceInputs, pid \in IdInputs, sid \in OptionalIdInputs,
          qty \in QuantityInputs, today \in Dates :
        /\ Chosen(c, 3)
        /\ IF ~pid.val.some THEN Continue(pid.out)
               ELSE IF ~qty.val.some THEN Continue(pid.out \o sid.out \o qty.out)
               ELSE Iteration([NoArgs EXCEPT !.fn = "add_stock",
                                             !.product_id = pid.val.val,
                                             !.supplier_id = sid.val,
                                             !.quantity = qty.val.val],
                              add_stock(DB, pid.val.val, sid.val, qty.val.val, today),
                              pid.out \o sid.out \o qty.out, "done")

MenuRemoveStock ==
    /\ pc = "menu"
    /\ \E c \in ChoiceInputs, pid \in IdInputs, qty \in QuantityInputs, today \in Dates :
        /\ Chosen(c, 4)
        /\ IF ~pid.val.some THEN Continue(pid.out)
               ELSE IF ~qty.val.some THEN Continue(pid.out \o qty.out)
               ELSE Iteration([NoArgs EXCEPT !.fn = "remove_stock",
                                             !.product_id = pid.val.val,
                                             !.quantity = qty.val.val],
                              remove_stock(DB, pid.val.val, qty.val.val, today),
                              pid.out \o qty.out, "done")

MenuListProducts ==
    /\ pc = "menu"
    /\ \E c \in ChoiceInputs :
        /\ Chosen(c, 5)
        /\ Iteration([NoArgs EXCEPT !.fn = "list_products"], list_products(DB),
                     <<>>, "done")

MenuViewHistory ==
    /\ pc = "menu"
    /\ \E c \in ChoiceInputs, pid \in IdInputs :
        /\ Chosen(c, 6)
        /\ IF ~pid.val.some THEN Continue(pid.out)
               ELSE Iteration([NoArgs EXCEPT !.fn = "view_products_history",
                                             !.product_id = pid.val.val],
                              view_products_history(DB, pid.val.val), pid.out, "done")

MenuUpdatePrice ==
    /\ pc = "menu"
    /\ \E c \in ChoiceInputs, pid \in IdInputs, new_price \in FloatInputs :
        /\ Chosen(c, 7)
        /\ IF ~pid.val.some THEN Continue(pid.out)
               ELSE IF ~new_price.val.some THEN Continue(pid.out \o new_price.out)
               ELSE Iteration([NoArgs EXCEPT !.fn = "update_product_price",
                                             !.product_id = pid.val.val,
                                             !.price = new_price.val.val],
                              update_product_price(DB, pid.val.val, new_price.val.val),
                              pid.out \o new_price.out, "done")

MenuDeleteSupplier ==
    /\ pc = "menu"
    /\ \E c \in ChoiceInputs, sid \in IdInputs :
        /\ Chosen(c, 8)
        /\ IF ~sid.val.some THEN Continue(sid.out)
               ELSE Iteration([NoArgs EXCEPT !.fn = "del_supplier",
                                             !.supplier_id = sid.val],
                              del_supplier(DB, sid.val.val), sid.out, "done")

MenuExit ==
    /\ pc = "menu"
    /\ \E c \in ChoiceInputs :
        /\ Chosen(c, 9)
        /\ Iteration([NoArgs EXCEPT !.fn = "exit"],
                     Result(DB, <<"Thank you, goodbye.">>, <<>>), <<>>, "exited")

MenuInvalidChoice ==
    /\ pc = "menu"
    /\ \E c \in ChoiceInputs :
        /\ c.val.some
        /\ c.val.val \notin 1..9
        /\ Iteration(NoArgs, Result(DB, <<"Invalid choice. Try again.">>, <<>>),
                     <<>>, "done")

Next ==
    \/ Main
    \/ LoopBack
    \/ MenuNoChoice
    \/ MenuAddProduct
    \/ MenuAddSupplier
    \/ MenuAddStock
    \/ MenuRemoveStock
    \/ MenuListProducts
    \/ MenuViewHistory
    \/ MenuUpdatePrice
    \/ MenuDeleteSupplier
    \/ MenuExit
    \/ MenuInvalidChoice

Spec == Init /\ [][Next]_vars

----------------------------------------------------------------------------
(* Vocabulary of the properties. *)

Last(q) == q[Len(q)]

Printed(m) == \E i \in 1..Len(out) : out[i] = m

TablesUnchanged ==
    /\ Products = pre.Products
    /\ Suppliers = pre.Suppliers
    /\ Transactions = pre.Transactions

NewTransactions == DOMAIN Transactions \ DOMAIN pre.Transactions

RECURSIVE Quantities(_, _)
Quantities(ids, kind) ==
    IF ids = {} THEN 0
    ELSE LET i == CHOOSE x \in ids : TRUE
         IN  (IF Transactions[i].type = kind THEN Transactions[i].quantity ELSE 0)
             + Quantities(ids \ {i}, kind)

LedgerOf(p) == {i \in DOMAIN Transactions : Transactions[i].product_id = p}

Dangling(t) == t.supplier_id.some /\ t.supplier_id.val \notin DOMAIN Suppliers

----------------------------------------------------------------------------
\* C1: in every reachable state the stock of every product equals the sum of
\* the quantities of its IN transactions minus the sum of the quantities of
\* its OUT transactions.
C1_StockEqualsLedger ==
    \A p \in DOMAIN Products :
        Products[p].stock = Quantities(LedgerOf(p), "IN") - Quantities(LedgerOf(p), "OUT")

C1_Witness ==
    \E p \in DOMAIN Products :
        /\ Quantities(LedgerOf(p), "IN") = 2
        /\ Quantities(LedgerOf(p), "OUT") = 1
        /\ Products[p].stock = 1

\* C2: the stock of every product is a non-negative integer in every reachable
\* state; a product created by the last iteration has stock 0.
C2_StockNonNegative ==
    \A p \in DOMAIN Products :
        /\ Products[p].stock \in Nat
        /\ p \notin DOMAIN pre.Products => Products[p].stock = 0

C2_Witness ==
    /\ call.fn = "remove_stock"
    /\ out = <<MSG_REMOVED>>
    /\ pre.Products[call.product_id].stock > 0
    /\ Products[call.product_id].stock = 0

\* C3: remove_stock(p, q) on an existing product with q > 0 and q above the
\* current stock prints the insufficient-stock error and leaves the three
\* tables as they were.
C3_InsufficientStockRefused ==
    ( /\ call.fn = "remove_stock"
      /\ call.product_id \in DOMAIN pre.Products
      /\ call.quantity > 0
      /\ call.quantity > pre.Products[call.product_id].stock )
    => /\ out = <<MSG_INSUFFICIENT>>
       /\ TablesUnchanged

C3_Witness ==
    /\ call.fn = "remove_stock"
    /\ call.product_id \in DOMAIN pre.Products
    /\ pre.Products[call.product_id].stock = 1
    /\ call.quantity = 2
    /\ out = <<MSG_INSUFFICIENT>>

C4_AddCase ==
    /\ call.fn = "add_stock"
    /\ call.product_id \in DOMAIN pre.Products
    /\ call.quantity > 0
    /\ ~call.supplier_id.some \/ call.supplier_id.val \in DOMAIN pre.Suppliers

C5_AbsentProduct ==
    /\ call.fn \in {"add_stock", "remove_stock", "update_product_price",
                    "view_products_history"}
    /\ call.product_id \notin DOMAIN pre.Products

C5_AbsentSupplier ==
    /\ call.fn \in {"add_stock", "del_supplier"}
    /\ call.supplier_id.some
    /\ call.supplier_id.val \notin DOMAIN pre.Suppliers

C5_NotFoundError == Last(out) \in {MSG_NO_PRODUCT, MSG_NO_SUPPLIER}

\* C5 (as claimed): add_stock, remove_stock, update_product_price and
\* view_products_history with a product id absent from Products, add_stock with
\* a supplier id absent from Suppliers and del_supplier with a supplier id absent
\* from Suppliers each end in a not-found error and leave the tables unchanged.
C5_AbsentIdIsNotFound ==
    (C5_AbsentProduct \/ C5_AbsentSupplier) => C5_NotFoundError /\ TablesUnchanged

C5_OtherArgumentsValid ==
    /\ call.fn \in {"add_stock", "remove_stock"} => call.quantity > 0
    /\ call.fn = "update_product_price" => call.price >= 0

\* C5 (amended): the same calls always leave the tables unchanged, and end in a
\* not-found error when the quantity (add_stock, remove_stock) is positive and
\* the new price (update_product_price) is not negative; otherwise the
\* quantity or price error is reported first.
C5_AbsentIdIsNotFoundWhenValid ==
    (C5_AbsentProduct \/ C5_AbsentSupplier)
    => /\ TablesUnchanged
       /\ C5_OtherArgumentsValid => C5_NotFoundError
       /\ ~C5_OtherArgumentsValid => Last(out) \in {MSG_QTY, MSG_PRICE_NEG}

C5_Witness ==
    /\ call.fn = "add_stock"
    /\ call.product_id \in DOMAIN pre.Products
    /\ call.quantity > 0
    /\ C5_AbsentSupplier
    /\ call.supplier_id.val \in deleted
    /\ out = <<MSG_NO_SUPPLIER>>

\* C6: whenever a prompt that expects a number was answered with text that is
\* not a number (prompt_int / prompt_float reported it), the iteration leaves
\* the three tables unchanged and the loop goes on to the next menu prompt.
C6_BadNumberMutatesNothing ==
    (Printed(MSG_INT) \/ Printed(MSG_NUM)) => TablesUnchanged /\ pc = "done"

\* C7: every transaction references an existing product; a transaction inserted
\* by the last iteration references a product and, when its supplier reference
\* is not null, a supplier that existed when the iteration began; OUT
\* transactions carry no supplier; a dangling supplier reference names a
\* supplier deleted since.
C7_ReferencesExistAtInsertion ==
    /\ \A i \in DOMAIN Transactions :
        /\ Transactions[i].product_id \in DOMAIN Products
        /\ Transactions[i].type = "OUT" => Transactions[i].supplier_id = None
        /\ Dangling(Transactions[i]) => Transactions[i].supplier_id.val \in deleted
    /\ \A i \in NewTransactions :
        /\ Transactions[i].product_id \in DOMAIN pre.Products
        /\ Transactions[i].supplier_id.some
              => Transactions[i].supplier_id.val \in DOMAIN pre.Suppliers

C7_Witness ==
    \E i \in DOMAIN Transactions :
        /\ Dangling(Transactions[i])
        /\ call.fn = "del_supplier"
        /\ call.supplier_id = Transactions[i].supplier_id

C8_Annotated(i) ==
    [date |-> Transactions[i].date, quantity |-> Transactions[i].quantity,
     type |-> Transactions[i].type,
     supplier |-> IF Transactions[i].supplier_id.some /\ ~Dangling(Transactions[i])
                  THEN Suppliers[Transactions[i].supplier_id.val].name
                  ELSE <<"N", "/", "A">>]

\* C8: view_products_history(p) on an existing product succeeds and returns
\* every transaction of p, by date descending then id descending, each with the
\* name of its supplier when the reference is not null and the supplier still
\* exists, and with "N/A" otherwise.
C8_HistoryComplete ==
    (call.fn = "view_products_history" /\ call.product_id \in DOMAIN pre.Products)
    => LET ids == LedgerOf(call.product_id)
           n == Cardinality(ids)
       IN  /\ out \in {<<MSG_HISTORY>>, <<MSG_NO_HISTORY>>}
           /\ TablesUnchanged
           /\ Len(rows) = n
           /\ \E f \in [1..n -> ids] :
                /\ \A i, j \in 1..n : i < j =>
                      \/ Transactions[f[i]].date > Transactions[f[j]].date
                      \/ /\ Transactions[f[i]].date = Transactions[f[j]].date
                         /\ f[i] > f[j]
                /\ \A i \in 1..n : rows[i] = C8_Annotated(f[i])

C8_Witness ==
    /\ call.fn = "view_products_history"
    /\ Len(rows) = 2
    /\ \E i, j \in LedgerOf(call.product_id) :
        /\ i < j
        /\ Transactions[i].date > Transactions[j].date
        /\ rows = <<C8_Annotated(i), C8_Annotated(j)>>

\* C9: no iteration removes or changes a transaction or removes a product; the
\* ledger grows by exactly one row in an iteration whose add_stock or
\* remove_stock succeeded, and by none in any other.
C9_LedgerAppendOnly ==
    /\ \A i \in DOMAIN pre.Transactions :
        i \in DOMAIN Transactions /\ Transactions[i] = pre.Transactions[i]
    /\ DOMAIN pre.Products \subseteq DOMAIN Products
    /\ Cardinality(NewTransactions) =
          IF \/ call.fn = "add_stock" /\ Last(out) = MSG_ADDED
             \/ call.fn = "remove_stock" /\ Last(out) = MSG_REMOVED
          THEN 1 ELSE 0

C9_Witness ==
    /\ call.fn = "del_supplier"
    /\ out = <<MSG_DELETED>>
    /\ \E i \in DOMAIN Transactions : Transactions[i].supplier_id = call.supplier_id

\* C10: the id of a deleted supplier is never given to a later supplier, so a
\* transaction whose supplier was deleted keeps a dangling reference and its
\* history row keeps "N/A".
C10_SupplierIdsNotReused ==
    /\ deleted \cap DOMAIN Suppliers = {}
    /\ \A i \in DOMAIN Transactions :
        (Transactions[i].supplier_id.some /\ Transactions[i].supplier_id.val \in deleted)
        => SupplierColumn(DB, Transactions[i]) = NA

C10_Witness ==
    /\ call.fn = "add_supplier"
    /\ deleted # {}
    /\ DOMAIN Suppliers # DOMAIN pre.Suppliers
    /\ \A s \in DOMAIN Suppliers \ DOMAIN pre.Suppliers : \A d \in deleted : s > d

====
